---- MODULE Spec2Model ----
(***************************************************************************)
(* Discord guild-membership synchronisation of the market application:     *)
(* fetchAllGuildMembers (recursive pagination of the guild roster) and     *)
(* isMemberOfGuild (lookup in the snapshot kept in the key-value store),   *)
(* app/services/discord.server.ts; and the loader and the action of the   *)
(* raffle confirmation route, app/routes/raffles/$raffleId/confirmation.   *)
(***************************************************************************)
EXTENDS Integers, Sequences, FiniteSets, TLC

(* ---- bounds of the model ---- *)
MaxGuild == 3       \* the upstream roster has at most MaxGuild members
MaxPage == 2        \* small page caps the upstream may apply
MaxServed == 4      \* members an upstream that repeats itself returns in all
MaxEntries == 2     \* raffle entries the entries query returns at most

(* ---- program constants ---- *)
Limit == 1000       \* "limit=1000" of the members request

\* user ids; a roster shorter than MaxGuild leaves ids that are no member
Ids == 1..MaxGuild
\* Lookups share nothing but the store, which they only read: one caller
\* against the writer shows every interleaving of a lookup with overwrites.
Callers == {"request"}
NoCursor == 0       \* lastUserId undefined: no "after" parameter
SnapshotKey == "discordGuildMembers"
Keys == {SnapshotKey, "other"}

Min(a, b) == IF a < b THEN a ELSE b

(* ---- JSON text, as a sequence of tokens: punctuation is negative, a    *)
(* ---- user id is the positive number itself                              *)
LBracket == 0 - 1
RBracket == 0 - 2
Comma == 0 - 3
LBrace == 0 - 4
RBrace == 0 - 5

\* a guild member as the routines see it: { user: { id } }
GuildMember(i) == [user |-> [id |-> i]]

\* JSON.stringify of an array of guild members
Stringify(members) ==
  LET n == Len(members) IN
  IF n = 0 THEN <<LBracket, RBracket>>
  ELSE [p \in 1..(4 * n + 1) |->
          IF p = 1 THEN LBracket
          ELSE LET k == ((p - 2) \div 4) + 1
                   r == (p - 2) % 4
               IN CASE r = 0 -> LBrace
                    [] r = 1 -> members[k].user.id
                    [] r = 2 -> RBrace
                    [] OTHER -> IF k = n THEN RBracket ELSE Comma]

\* the body of an upstream error answer: a well-formed JSON object
ErrorObjectText == <<LBrace, RBrace>>
\* a body that is not JSON at all
MalformedText == <<Comma>>

\* is text the JSON of a non-empty array of members
WellFormedArray(text) ==
  LET L == Len(text) IN
  /\ L >= 5
  /\ (L - 1) % 4 = 0
  /\ text[1] = LBracket
  /\ \A p \in 2..L :
       LET k == ((p - 2) \div 4) + 1
           r == (p - 2) % 4
       IN CASE r = 0 -> text[p] = LBrace
            [] r = 1 -> text[p] > 0
            [] r = 2 -> text[p] = RBrace
            [] OTHER -> text[p] = (IF p = L THEN RBracket ELSE Comma)

\* JSON.parse / Response.json: the parsed value, or a syntax error
Parse(text) ==
  IF text = <<LBracket, RBracket>>
    THEN [kind |-> "array", items |-> <<>>]
  ELSE IF WellFormedArray(text)
    THEN [kind |-> "array",
          items |-> [k \in 1..((Len(text) - 1) \div 4) |->
                       GuildMember(text[4 * (k - 1) + 3])]]
  ELSE IF text = ErrorObjectText
    THEN [kind |-> "object", items |-> <<>>]
  ELSE [kind |-> "error", items |-> <<>>]

(* ---- values of the key-value store ---- *)
Null == [present |-> FALSE, text |-> <<>>]
Value(text) == [present |-> TRUE, text |-> text]

VARIABLES
  roster,           \* upstream: the guild's members (ids), in upstream order
  pageCap,          \* upstream: the most members it puts in one page
  store,            \* the key-value store: key -> Null or Value(text)
  fPc,              \* fetchAllGuildMembers: "idle", "awaiting", "returned", "thrown"
  previousMembers,  \* its accumulator
  lastUserId,       \* its cursor
  fResult,          \* the string it resolved with
  reqLog,           \* the "after" cursor of every request of the run
  respLog,          \* what the upstream answered to each
  reqLimits,        \* the "limit" parameter of every request of the run
  arrays,           \* the array each call of the run got as previousMembers
  served,           \* the ids of the members the upstream returned, in order
  lkPc,             \* isMemberOfGuild per caller: "idle", "get", "resume", "returned", "thrown"
  lkId,             \* its argument
  lkVal,            \* what redisClient.get resolved with
  lkResult,         \* the boolean it resolved with
  lkPre,            \* the snapshot in the store when the call was made
  lkWrites,         \* overwrites of the snapshot during the call (capped at 2)
  rtKind,           \* confirmation route: "none", "loader" or "action"
  rtPc,             \* the call it awaits, or "idle", "done"
  rtAuth,           \* does the request carry an authenticated session
  rtEntries,        \* what the raffle entries query resolved with
  rtCalls,          \* the lookups made so far, in order
  rtOutcome         \* the response: data, a redirect, or an error

fetchVars == <<fPc, previousMembers, lastUserId, fResult, reqLog, respLog,
               reqLimits, arrays, served>>
lookupVars == <<lkPc, lkId, lkVal, lkResult, lkPre, lkWrites>>
routeVars == <<rtKind, rtPc, rtAuth, rtEntries, rtCalls, rtOutcome>>
vars == <<roster, pageCap, store, fetchVars, lookupVars, routeVars>>

\* the rosters: n distinct members in any order (the routines only compare
\* ids for equality, so the members of a roster of n are named 1..n)
Rosters ==
  UNION { { s \in [1..n -> 1..n] : \A i, j \in 1..n : i # j => s[i] # s[j] } :
          n \in 0..MaxGuild }

PageCaps == (1..MaxPage) \cup {Limit}

(* ---- the upstream: the next members after the cursor, at most          *)
(* ---- min(limit, pageCap) of them                                        *)
PositionOf(r, cursor) ==
  IF cursor = NoCursor THEN 0
  ELSE IF \E i \in 1..Len(r) : r[i] = cursor
    THEN CHOOSE i \in 1..Len(r) : r[i] = cursor
  ELSE Len(r)

Page(r, cursor, limit, cap) ==
  LET from == PositionOf(r, cursor)
      to == Min(Len(r), from + Min(limit, cap))
  IN [k \in 1..(to - from) |-> GuildMember(r[from + k])]

\* after construction: nothing stored, nothing in progress
Constructed ==
  /\ store = [k \in Keys |-> Null]
  /\ fPc = "idle"
  /\ previousMembers = <<>>
  /\ lastUserId = NoCursor
  /\ fResult = <<>>
  /\ reqLog = <<>>
  /\ respLog = <<>>
  /\ reqLimits = <<>>
  /\ arrays = <<>>
  /\ served = <<>>
  /\ lkPc = [c \in Callers |-> "idle"]
  /\ lkId = [c \in Callers |-> 1]
  /\ lkVal = [c \in Callers |-> Null]
  /\ lkResult = [c \in Callers |-> FALSE]
  /\ lkPre = [c \in Callers |-> Null]
  /\ lkWrites = [c \in Callers |-> 0]
  /\ rtKind = "none"
  /\ rtPc = "idle"
  /\ rtAuth = FALSE
  /\ rtEntries = <<>>
  /\ rtCalls = <<>>
  /\ rtOutcome = [kind |-> "none", to |-> ""]

\* the ids of the members of that page
PageIds(r, cursor, limit, cap) ==
  LET from == PositionOf(r, cursor)
      to == Min(Len(r), from + Min(limit, cap))
  IN SubSeq(r, from + 1, to)

Init ==
  /\ roster \in Rosters
  /\ pageCap \in PageCaps
  /\ Constructed

(* ---- fetchAllGuildMembers ---- *)

\* fetchGuildMembersChunk(lastUserId): one request is sent
fetchGuildMembersChunk(cursor) ==
  /\ reqLog' = Append(reqLog, cursor)
  /\ reqLimits' = Append(reqLimits, Limit)

\* the top-level call: fetchAllGuildMembers() with the default arguments
FetchCall ==
  /\ fPc \in {"idle", "thrown"}
  /\ previousMembers' = <<>>
  /\ lastUserId' = NoCursor
  /\ fResult' = <<>>
  /\ reqLog' = <<NoCursor>>
  /\ reqLimits' = <<Limit>>
  /\ respLog' = <<>>
  /\ arrays' = <<<<>>>>
  /\ served' = <<>>
  /\ fPc' = "awaiting"
  /\ UNCHANGED <<roster, pageCap, store, lookupVars, routeVars>>

\* const members = newMembers.length > 0 ? [...previousMembers, ...newMembers]
\*                                         : previousMembers
MembersForget(previous, newMembers) ==
  IF newMembers.kind = "array" /\ Len(newMembers.items) > 0
    THEN newMembers.items
  ELSE previous

MembersDedup(previous, newMembers) ==
  IF newMembers.kind = "array" /\ Len(newMembers.items) > 0
    THEN previous \o SelectSeq(newMembers.items,
                     LAMBDA m : \A i \in 1..Len(previous) : previous[i] # m)
  ELSE previous

Members(previous, newMembers) ==
  IF newMembers.kind = "array" /\ Len(newMembers.items) > 0
    THEN previous \o newMembers.items
  ELSE previous

\* if (newMembers.length > 0): the length of a value that is no array is
\* undefined, and undefined > 0 is false
ShouldRecurseAlways(newMembers) ==
  newMembers.kind = "array"

ShouldRecurseFullPage(newMembers) ==
  newMembers.kind = "array" /\ Len(newMembers.items) >= Limit

ShouldRecurse(newMembers) ==
  newMembers.kind = "array" /\ Len(newMembers.items) > 0

\* lastItem.user.id, the cursor of the next request
NextCursorFirst(members) == members[1].user.id

NextCursor(members) == members[Len(members)].user.id

\* [...previousMembers, ...newMembers] is a new array, handed to the next
\* call: the arrays of the earlier calls stay as they are
PushInPlace(heap, members) ==
  Append([heap EXCEPT ![Len(heap)] = members], members)

SpreadInto(heap, members) == Append(heap, members)

\* the rest of fetchAllGuildMembers once the response with this body is in
FetchResume(kind, body) ==
  LET newMembers == Parse(body)
      members == Members(previousMembers, newMembers)
  IN
  /\ respLog' = Append(respLog, [kind |-> kind,
                                 n |-> Len(newMembers.items),
                                 had |-> Len(previousMembers)])
  /\ IF newMembers.kind = "error"
       THEN \* response.json() rejects
            /\ fPc' = "thrown"
            /\ UNCHANGED <<previousMembers, lastUserId, fResult, reqLog,
                           reqLimits, arrays>>
     ELSE IF ShouldRecurse(newMembers)
       THEN IF Len(members) = 0
              THEN \* lastItem is undefined: lastItem.user throws
                   /\ fPc' = "thrown"
                   /\ UNCHANGED <<previousMembers, lastUserId, fResult, reqLog,
                                  reqLimits, arrays>>
            ELSE /\ previousMembers' = members
                 /\ arrays' = SpreadInto(arrays, members)
                 /\ lastUserId' = NextCursor(members)
                 /\ fetchGuildMembersChunk(NextCursor(members))
                 /\ fPc' = "awaiting"
                 /\ UNCHANGED fResult
     ELSE /\ fResult' = Stringify(members)
          /\ fPc' = "returned"
          /\ UNCHANGED <<previousMembers, lastUserId, reqLog, reqLimits, arrays>>
  /\ UNCHANGED <<roster, pageCap, store, lookupVars, routeVars>>

\* the upstream answers with the next page
RespondPage ==
  /\ fPc = "awaiting"
  /\ FetchResume("page", Stringify(Page(roster, reqLog[Len(reqLog)],
                                         reqLimits[Len(reqLimits)], pageCap)))
  /\ served' = served \o PageIds(roster, reqLog[Len(reqLog)],
                                  reqLimits[Len(reqLimits)], pageCap)

\* the upstream answers with an error status and a JSON error object
RespondErrorObject ==
  /\ fPc = "awaiting"
  /\ FetchResume("errorObject", ErrorObjectText)
  /\ UNCHANGED served

\* the upstream answers with a body that is not JSON
RespondMalformed ==
  /\ fPc = "awaiting"
  /\ FetchResume("malformed", MalformedText)
  /\ UNCHANGED served

\* the request fails: fetch rejects
RespondNetworkFailure ==
  /\ fPc = "awaiting"
  /\ respLog' = Append(respLog, [kind |-> "network", n |-> 0,
                                 had |-> Len(previousMembers)])
  /\ fPc' = "thrown"
  /\ UNCHANGED <<previousMembers, lastUserId, fResult, reqLog,
                 reqLimits, arrays, served>>
  /\ UNCHANGED <<roster, pageCap, store, lookupVars, routeVars>>

\* the caller of fetchAllGuildMembers writes its result under the key
Persist ==
  /\ fPc = "returned"
  /\ store' = [store EXCEPT ![SnapshotKey] = Value(fResult)]
  /\ fPc' = "idle"
  /\ previousMembers' = <<>>
  /\ lastUserId' = NoCursor
  /\ fResult' = <<>>
  /\ reqLog' = <<>>
  /\ respLog' = <<>>
  /\ reqLimits' = <<>>
  /\ arrays' = <<>>
  /\ served' = <<>>
  /\ lkWrites' = [c \in Callers |->
                    IF lkPc[c] \in {"get", "resume"}
                      THEN Min(lkWrites[c] + 1, 2) ELSE lkWrites[c]]
  /\ UNCHANGED <<roster, pageCap, lkPc, lkId, lkVal, lkResult, lkPre, routeVars>>

(* ---- isMemberOfGuild ---- *)

\* the ids asked about: any id, and that of the roster's last member
LookupIds == Ids \cup { roster[i] : i \in {Len(roster)} \cap DOMAIN roster }

\* isMemberOfGuild(id) is called: redisClient.get is issued
LookupCall(c, id) ==
  /\ lkPc[c] \in {"idle", "returned", "thrown"}
  /\ lkPc' = [lkPc EXCEPT ![c] = "get"]
  /\ lkId' = [lkId EXCEPT ![c] = id]
  /\ lkVal' = [lkVal EXCEPT ![c] = Null]
  /\ lkResult' = [lkResult EXCEPT ![c] = FALSE]
  /\ lkPre' = [lkPre EXCEPT ![c] = store[SnapshotKey]]
  /\ lkWrites' = [lkWrites EXCEPT ![c] = 0]
  /\ UNCHANGED <<roster, pageCap, store, fetchVars, routeVars>>

\* the store serves the get: one whole-value read
RedisGet(st, key) == st[key]

LookupGetDel(c) ==
  /\ lkPc[c] = "get"
  /\ lkVal' = [lkVal EXCEPT ![c] = RedisGet(store, SnapshotKey)]
  /\ lkPc' = [lkPc EXCEPT ![c] = "resume"]
  /\ store' = [store EXCEPT ![SnapshotKey] = Null]
  /\ UNCHANGED <<roster, pageCap, fetchVars, routeVars,
                 lkId, lkResult, lkPre, lkWrites>>

LookupGet(c) ==
  /\ lkPc[c] = "get"
  /\ lkVal' = [lkVal EXCEPT ![c] = RedisGet(store, SnapshotKey)]
  /\ lkPc' = [lkPc EXCEPT ![c] = "resume"]
  /\ UNCHANGED <<roster, pageCap, store, fetchVars, routeVars,
                 lkId, lkResult, lkPre, lkWrites>>

\* parsedResult.find(item => item.user.id === id), then !!matchingUser
HasMatchingUserFirst(items, id) ==
  Len(items) > 0 /\ items[1].user.id = id

HasMatchingUserSkipLast(items, id) ==
  \E i \in 1..(Len(items) - 1) : items[i].user.id = id

HasMatchingUser(items, id) ==
  \E i \in 1..Len(items) : items[i].user.id = id

\* discordGuildMembers && JSON.parse(discordGuildMembers), then the find:
\* "thrown" when the value is not an array (null.find, a syntax error)
LookupOutcome(val, id) ==
  IF ~val.present \/ val.text = <<>>
    THEN [pc |-> "thrown", result |-> FALSE]
  ELSE LET parsedResult == Parse(val.text) IN
       IF parsedResult.kind # "array"
         THEN [pc |-> "thrown", result |-> FALSE]
       ELSE [pc |-> "returned",
             result |-> HasMatchingUser(parsedResult.items, id)]

LookupReturn(c) ==
  /\ lkPc[c] = "resume"
  /\ LET out == LookupOutcome(lkVal[c], lkId[c]) IN
       /\ lkPc' = [lkPc EXCEPT ![c] = out.pc]
       /\ lkResult' = [lkResult EXCEPT ![c] = out.result]
  /\ lkPre' = [lkPre EXCEPT ![c] = Null]
  /\ UNCHANGED <<roster, pageCap, store, fetchVars, routeVars,
                 lkId, lkVal, lkWrites>>

Respond ==
  \/ RespondPage
  \/ RespondErrorObject
  \/ RespondMalformed
  \/ RespondNetworkFailure

Next ==
  \/ FetchCall
  \/ RespondPage
  \/ RespondErrorObject
  \/ RespondMalformed
  \/ RespondNetworkFailure
  \/ Persist
  \/ \E c \in Callers, id \in LookupIds : LookupCall(c, id)
  \/ \E c \in Callers : LookupGet(c)
  \/ \E c \in Callers : LookupReturn(c)

Spec == Init /\ [][Next]_vars

\* The refresh job alone, with an upstream that answers every request.
FetchNext ==
  \/ FetchCall
  \/ RespondPage
  \/ RespondErrorObject
  \/ RespondMalformed
  \/ RespondNetworkFailure
  \/ Persist

FetchSpec == Init /\ [][FetchNext]_vars /\ WF_vars(Respond)

\* The example of the specification's section 8: a guild of 2500 members
\* behind an upstream that serves full pages of the requested size.
ScenarioRoster == [i \in 1..2500 |-> i]

ScenarioInit ==
  /\ roster = ScenarioRoster
  /\ pageCap = Limit
  /\ Constructed

\* the run of the example, its result stored, and lookups of the last member
ScenarioNext ==
  \/ FetchCall
  \/ RespondPage
  \/ Persist
  \/ \E c \in Callers : LookupCall(c, roster[Len(roster)])
  \/ \E c \in Callers : LookupGet(c)
  \/ \E c \in Callers : LookupReturn(c)

ScenarioSpec == ScenarioInit /\ [][ScenarioNext]_vars

\* An upstream that answers with any page, repeated members included.
AnyPages == UNION { [1..n -> Ids] : n \in 0..MaxPage }

RespondAnyPage(page) ==
  /\ fPc = "awaiting"
  /\ Len(served) + Len(page) <= MaxServed
  /\ FetchResume("anyPage",
                 Stringify([k \in 1..Len(page) |-> GuildMember(page[k])]))
  /\ served' = served \o page

DupInit ==
  /\ roster = <<>>
  /\ pageCap = Limit
  /\ Constructed

DupNext ==
  \/ FetchCall
  \/ \E page \in AnyPages : RespondAnyPage(page)

DupSpec == DupInit /\ [][DupNext]_vars

(* ---- the confirmation route: loader and action ---- *)

\* RaffleEntryStatus
Statuses == {"DRAWN", "CREATED", "ARCHIVED", "CANCELED"}
\* what getRaffleEntriesByRaffleIdAndUserId may resolve with
EntryLists == UNION { [1..n -> [status : Statuses]] : n \in 0..MaxEntries }

Redirect(to) == [kind |-> "redirect", to |-> to]
Data == [kind |-> "data", to |-> ""]
Failure == [kind |-> "error", to |-> ""]
CheckoutUrl == "checkoutUrl"

routeRest == <<roster, pageCap, store, fetchVars, lookupVars>>

\* the handler ends with this response
RouteEnd(outcome) ==
  /\ rtOutcome' = outcome
  /\ rtPc' = "done"
  /\ UNCHANGED rtCalls

\* the handler makes this call and awaits it
RouteAwait(call) ==
  /\ rtCalls' = Append(rtCalls, call)
  /\ rtPc' = call
  /\ UNCHANGED rtOutcome

\* a request for the route arrives: authenticator.isAuthenticated is awaited
RouteRequest(kind, auth) ==
  /\ rtPc \in {"idle", "done"}
  /\ rtKind' = kind
  /\ rtAuth' = auth
  /\ rtEntries' = <<>>
  /\ rtCalls' = <<>>
  /\ rtOutcome' = [kind |-> "none", to |-> ""]
  /\ rtPc' = "isAuthenticated"
  /\ UNCHANGED routeRest

\* isAuthenticated resolves with the user, or throws the redirect to /login
Authenticated ==
  /\ rtPc = "isAuthenticated"
  /\ IF rtAuth
       THEN RouteAwait("getRaffleEntriesByRaffleIdAndUserId")
     ELSE RouteEnd(Redirect("/login"))
  /\ UNCHANGED <<rtKind, rtAuth, rtEntries, routeRest>>

\* if (!raffleEntry || raffleEntry.status !== "DRAWN"), raffleEntry being
\* raffleEntries[0]
LoaderGateNoStatus(entries) ==
  entries = <<>>

LoaderGate(entries) ==
  entries = <<>> \/ entries[1].status # "DRAWN"

\* the entries query resolves; the loader applies its gate; the action
\* reads raffleEntry.raffleId of raffleEntries[0]
EntriesResolved(entries) ==
  /\ rtPc = "getRaffleEntriesByRaffleIdAndUserId"
  /\ rtEntries' = entries
  /\ IF rtKind = "loader"
       THEN IF LoaderGate(entries)
              THEN RouteEnd(Redirect("/"))
            ELSE RouteAwait("getRaffleById")
     ELSE IF entries = <<>>
            THEN RouteEnd(Failure)
          ELSE RouteAwait("getRaffleById")
  /\ UNCHANGED <<rtKind, rtAuth, routeRest>>

\* getRaffleById resolves: invariant(raffle), invariant(productSlug)
RaffleResolved(raffle) ==
  /\ rtPc = "getRaffleById"
  /\ IF raffle = "found"
       THEN RouteAwait("getProduct")
     ELSE RouteEnd(Failure)
  /\ UNCHANGED <<rtKind, rtAuth, rtEntries, routeRest>>

\* commerce.getProduct resolves: invariant(product)
ProductResolved(found) ==
  /\ rtPc = "getProduct"
  /\ IF ~found
       THEN RouteEnd(Failure)
     ELSE IF rtKind = "loader"
       THEN RouteAwait("getProducts")
     ELSE RouteAwait("getRaffleEntryProductsByRaffleEntryId")
  /\ UNCHANGED <<rtKind, rtAuth, rtEntries, routeRest>>

\* action: the entry's products resolve: invariant(matchingVariant)
EntryProductsResolved(variant) ==
  /\ rtPc = "getRaffleEntryProductsByRaffleEntryId"
  /\ IF variant = "matching"
       THEN RouteAwait("getProducts")
     ELSE RouteEnd(Failure)
  /\ UNCHANGED <<rtKind, rtAuth, rtEntries, routeRest>>

\* commerce.getProducts resolves: the accessories are fetched
ProductsResolved ==
  /\ rtPc = "getProducts"
  /\ RouteAwait("getAccessories")
  /\ UNCHANGED <<rtKind, rtAuth, rtEntries, routeRest>>

\* Promise.all of the accessories resolves: the loader returns its data,
\* the action awaits request.formData()
AccessoriesResolved ==
  /\ rtPc = "getAccessories"
  /\ IF rtKind = "loader"
       THEN RouteEnd(Data)
     ELSE RouteAwait("formData")
  /\ UNCHANGED <<rtKind, rtAuth, rtEntries, routeRest>>

\* action: the form resolves: invariant(serializedFormDataQuantities)
FormResolved(quantities) ==
  /\ rtPc = "formData"
  /\ IF quantities
       THEN RouteAwait("getCheckoutUrl")
     ELSE RouteEnd(Failure)
  /\ UNCHANGED <<rtKind, rtAuth, rtEntries, routeRest>>

\* action: commerce.getCheckoutUrl resolves: redirect(checkoutUrl)
CheckoutResolved ==
  /\ rtPc = "getCheckoutUrl"
  /\ RouteEnd(Redirect(CheckoutUrl))
  /\ UNCHANGED <<rtKind, rtAuth, rtEntries, routeRest>>

RouteInit ==
  /\ roster = <<>>
  /\ pageCap = Limit
  /\ Constructed

RouteNext ==
  \/ \E kind \in {"loader", "action"}, auth \in BOOLEAN : RouteRequest(kind, auth)
  \/ Authenticated
  \/ \E entries \in EntryLists : EntriesResolved(entries)
  \/ \E raffle \in {"found", "none", "noProductSlug"} : RaffleResolved(raffle)
  \/ \E found \in BOOLEAN : ProductResolved(found)
  \/ \E variant \in {"matching", "none"} : EntryProductsResolved(variant)
  \/ ProductsResolved
  \/ AccessoriesResolved
  \/ \E quantities \in BOOLEAN : FormResolved(quantities)
  \/ CheckoutResolved

RouteSpec == RouteInit /\ [][RouteNext]_vars

(***************************************************************************)
(* Properties                                                              *)
(***************************************************************************)

GuildSize == Len(roster)
\* the page size in effect: the requested limit, or the upstream's cap
PageSize == Min(Limit, pageCap)
CeilDiv(a, b) == (a + b - 1) \div b

Finished == fPc \in {"returned", "thrown"}
\* every answer of the run so far was a page of the roster
NoFault == \A i \in 1..Len(respLog) : respLog[i].kind = "page"
\* some answer was an upstream error
Faulted == \E i \in 1..Len(respLog) : respLog[i].kind # "page"
\* ... that came when members had been accumulated
FaultAfterPartial ==
  \E i \in 1..Len(respLog) : respLog[i].kind # "page" /\ respLog[i].had > 0

\* the user ids of a JSON text, in the order they appear
IdsIn(text) == SelectSeq(text, LAMBDA t : t > 0)
Distinct(seq) == \A i, j \in 1..Len(seq) : i # j => seq[i] # seq[j]
EmptyArrayText == <<LBracket, RBracket>>

LookupDone(c) == lkPc[c] \in {"returned", "thrown"}

\* C1: against an upstream that serves the roster page by page, a run never
\* issues more than ceil(N / P) + 1 requests, and every run that was started
\* comes to its end.
Thm_C1_Terminates ==
  /\ [](NoFault => Len(reqLog) <= CeilDiv(GuildSize, PageSize) + 1)
  /\ (fPc = "awaiting") ~> Finished

Wit_C1 ==
  /\ fPc = "returned" /\ NoFault
  /\ GuildSize = 3 /\ PageSize = 2
  /\ Len(reqLog) = CeilDiv(GuildSize, PageSize) + 1

\* C2: the string a fault-free run returns is the JSON of exactly the
\* roster: N members, no duplicates, in the upstream's order.
Thm_C2_ResultIsRoster ==
  (fPc = "returned" /\ NoFault) =>
    /\ Parse(fResult).kind = "array"
    /\ Len(IdsIn(fResult)) = GuildSize
    /\ Distinct(IdsIn(fResult))
    /\ IdsIn(fResult) = roster

Wit_C2 ==
  /\ fPc = "returned" /\ NoFault
  /\ GuildSize = 3 /\ PageSize = 2
  /\ roster # <<1, 2, 3>>

\* C3 (as claimed): an upstream error that arrives after members have been
\* accumulated never ends the run with a value, and the store keeps what
\* it held.
Orig_C3_NoPartialSnapshot ==
  [][FaultAfterPartial' => (fPc' # "returned" /\ store' = store)]_vars

\* C4 (as claimed): a failed request, an error status or a body that is no
\* sequence of members makes the run fail, without a further request.
Orig_C4_FaultAborts ==
  (Finished /\ Faulted) =>
    (fPc = "thrown" /\ Len(reqLog) = Len(respLog))

\* C5 (as claimed): with nothing stored under the key, the lookup returns
\* false.
Orig_C5_AbsentIsFalse ==
  \A c \in Callers :
    (LookupDone(c) /\ ~lkVal[c].present) =>
      (lkPc[c] = "returned" /\ lkResult[c] = FALSE)

\* C6: against a stored snapshot the lookup returns, and returns true
\* exactly when the snapshot has an entry with that user id.
Thm_C6_LookupIffPresent ==
  \A c \in Callers :
    (LookupDone(c) /\ lkVal[c].present) =>
      /\ lkPc[c] = "returned"
      /\ lkResult[c] =
           (\E p \in 1..Len(lkVal[c].text) : lkVal[c].text[p] = lkId[c])

Wit_C6 ==
  \E c \in Callers :
    /\ lkPc[c] = "returned" /\ lkVal[c].present
    /\ lkResult[c] = TRUE
    /\ Len(lkVal[c].text) > 5
    /\ lkVal[c].text[3] # lkId[c]

\* the outcome of a lookup of id against the complete snapshot v
OutcomeAgainst(v, id) ==
  IF v.present
    THEN [pc |-> "returned",
          result |-> \E p \in 1..Len(v.text) : v.text[p] = id]
  ELSE [pc |-> "thrown", result |-> FALSE]

\* C7: a lookup during which the snapshot was overwritten at most once ends
\* as a lookup against the whole snapshot before the overwrite, or against
\* the whole snapshot after it.
Thm_C7_OldOrNew ==
  [][\A c \in Callers :
       (lkPc[c] = "resume" /\ LookupDone(c)' /\ lkWrites[c] <= 1) =>
         [pc |-> lkPc'[c], result |-> lkResult'[c]] \in
           { OutcomeAgainst(lkPre[c], lkId[c]),
             OutcomeAgainst(store[SnapshotKey], lkId[c]) }]_vars

Wit_C7 ==
  \E c \in Callers :
    /\ lkPc[c] = "returned" /\ lkWrites[c] = 1
    /\ lkVal[c].present /\ store[SnapshotKey] # lkVal[c]
    /\ lkResult[c] = TRUE
    /\ fPc = "idle"

\* C8: an empty first page ends the run after that one request, with the
\* JSON of the empty array.
Thm_C8_EmptyFirstPage ==
  (Len(respLog) >= 1 /\ respLog[1].kind = "page" /\ respLog[1].n = 0) =>
    /\ fPc = "returned"
    /\ Len(reqLog) = 1
    /\ fResult = EmptyArrayText

Wit_C8 ==
  /\ Len(respLog) = 1 /\ respLog[1].kind = "page" /\ respLog[1].n = 0
  /\ fPc = "returned"

\* is v the snapshot of the whole roster
FullSnapshot(v) == v.present /\ IdsIn(v.text) = roster

\* C9 (as claimed): the run over 2500 members issues three requests, with
\* the cursors none, id of member 1000, id of member 2000.
Orig_C9_ThreeRequests ==
  (fPc = "returned" /\ NoFault) =>
    reqLog = <<NoCursor, roster[1000], roster[2000]>>

\* C9 (amended): the run over 2500 members issues four requests, with the
\* cursors none, id of member 1000, of member 2000, of member 2500 (the
\* last answered by the empty page); it returns the 2500 members, all
\* different; and a lookup of the 2500th member's id that reads the stored
\* result returns true.
Thm_C9_FourRequests ==
  /\ (fPc = "returned" /\ NoFault) =>
       /\ reqLog = <<NoCursor, roster[1000], roster[2000], roster[2500]>>
       /\ Len(IdsIn(fResult)) = 2500
       /\ Distinct(IdsIn(fResult))
  /\ \A c \in Callers :
       (LookupDone(c) /\ FullSnapshot(lkVal[c]) /\ lkId[c] = roster[2500]) =>
         (lkPc[c] = "returned" /\ lkResult[c] = TRUE)

Wit_C9 ==
  /\ fPc = "returned" /\ NoFault /\ Len(reqLog) = 4
  /\ \E c \in Callers :
       /\ lkPc[c] = "returned" /\ FullSnapshot(lkVal[c])
       /\ lkId[c] = roster[2500]

\* C10: no step of a lookup changes the store.
Thm_C10_LookupReadOnly ==
  [][(lkPc' # lkPc) => (store' = store)]_vars

Wit_C10 ==
  \E c \in Callers :
    /\ LookupDone(c)
    /\ lkVal[c].present
    /\ store[SnapshotKey] = lkVal[c]

\* C11: no step of a fetchAllGuildMembers run changes the store, and the
\* array a call of the run was given as previousMembers is never changed
\* by the later steps of the run.
Thm_C11_FetchFrame ==
  [][(fPc # "returned" /\ (respLog' # respLog \/ reqLog' # reqLog)) =>
       /\ store' = store
       /\ fPc = "awaiting" =>
            \A k \in 1..Len(arrays) :
              k <= Len(arrays') /\ arrays'[k] = arrays[k]]_vars

Wit_C11 ==
  /\ fPc = "returned"
  /\ Len(arrays) >= 3
  /\ arrays[1] = <<>> /\ Len(arrays[2]) < Len(arrays[3])
  /\ store[SnapshotKey].present /\ store[SnapshotKey].text # fResult

\* C12: one request is outstanding exactly while the run waits, none
\* otherwise; the first request has no cursor; every later request has as
\* cursor the id of the last member the upstream had returned when it was
\* sent; every request asks for 1000 members.
Thm_C12_CursorChain ==
  /\ Len(reqLog) - Len(respLog) = (IF fPc = "awaiting" THEN 1 ELSE 0)
  /\ Len(reqLog) >= 1 => reqLog[1] = NoCursor
  /\ \A k \in 2..Len(reqLog) :
       /\ respLog[k - 1].n > 0
       /\ reqLog[k] = served[respLog[k - 1].had + respLog[k - 1].n]
  /\ Len(reqLimits) = Len(reqLog)
  /\ \A k \in 1..Len(reqLimits) : reqLimits[k] = 1000

Wit_C12 ==
  /\ fPc = "awaiting"
  /\ Len(reqLog) = 3
  /\ reqLog[2] # reqLog[3]
  /\ Len(served) = 3

\* C13: whatever the upstream returns, repeated members included, the run
\* returns exactly that: every member as often as it was returned, in the
\* order it was returned.
Thm_C13_DuplicatesKept ==
  fPc = "returned" =>
    /\ IdsIn(fResult) = served
    /\ Parse(fResult).kind = "array"
    /\ Parse(fResult).items = [k \in 1..Len(served) |-> GuildMember(served[k])]

Wit_C13 ==
  /\ fPc = "returned"
  /\ Len(respLog) >= 3
  /\ \E i, j \in 1..Len(served) : i < j /\ served[i] = served[j]
  /\ \E i \in 1..(Len(served) - 1) : served[i] = served[i + 1]

\* the entries query has resolved in this request
EntriesKnown ==
  /\ \E i \in 1..Len(rtCalls) : rtCalls[i] = "getRaffleEntriesByRaffleIdAndUserId"
  /\ rtPc # "getRaffleEntriesByRaffleIdAndUserId"
\* the first entry exists and is DRAWN
FirstEntryDrawn == rtEntries # <<>> /\ rtEntries[1].status = "DRAWN"
\* the lookups of the raffle and of the commerce provider
RaffleOrCommerce ==
  {"getRaffleById", "getProduct", "getProducts", "getAccessories",
   "getCheckoutUrl"}

\* C14: the loader answers with data only for an authenticated user whose
\* first entry is DRAWN; with no entry, or a first entry of another status,
\* it redirects to "/" and has made no raffle or commerce lookup.
Thm_C14_LoaderGate ==
  rtKind = "loader" =>
    /\ rtOutcome.kind = "data" => (rtAuth /\ FirstEntryDrawn)
    /\ (EntriesKnown /\ ~FirstEntryDrawn) =>
         /\ rtOutcome = Redirect("/")
         /\ \A i \in 1..Len(rtCalls) : rtCalls[i] \notin RaffleOrCommerce

Wit_C14 ==
  /\ rtKind = "loader" /\ rtPc = "done"
  /\ rtOutcome = Redirect("/")
  /\ Len(rtEntries) = 2
  /\ rtEntries[1].status = "CREATED" /\ rtEntries[2].status = "DRAWN"

\* C15 (as claimed): the action redirects to a checkout URL only for an
\* authenticated user whose first entry is DRAWN.
Orig_C15_ActionGate ==
  (rtKind = "action" /\ rtOutcome = Redirect(CheckoutUrl)) =>
    (rtAuth /\ FirstEntryDrawn)

====
